---------------------------- MODULE Spec2Model ----------------------------
(***************************************************************************)
(* Gameplay core of src/galaga_shooter.py: the Player and Enemy state      *)
(* machines, the frame loop of run_game with its three collision rules,    *)
(* the wave scheduler and the dive scheduler.                              *)
(*                                                                         *)
(* Geometry is not carried in the state.  Every rectangle test of the      *)
(* source (colliderect, groupcollide, spritecollide) reads positions that  *)
(* are the result of keyboard input and of random draws; its outcome is a  *)
(* nondeterministic choice made at the place where the source sets the     *)
(* positions (overlap of an enemy with the player: in Enemy.update) or     *)
(* where it evaluates the test (bullets).                                  *)
(*                                                                         *)
(* The clock pygame.time.get_ticks() advances by FrameMs once per frame.   *)
(* The source uses a timestamp only in a difference "clock - timestamp"    *)
(* that it compares with a constant, so every timestamp is kept relative   *)
(* to the current reading of the clock: the reading is Clock, and a frame  *)
(* moves every stored timestamp FrameMs into the past, down to -Horizon,   *)
(* beyond which no comparison of the source tells two timestamps apart.    *)
(***************************************************************************)
EXTENDS Integers, Sequences, FiniteSets, TLC

(***************************** bounds **************************************)
\* number of enemies of a formation that are modelled (the source spawns 10)
MaxEnemies == 2
\* number of frames of one session that are explored
MaxFrames == 3
\* milliseconds between two frames (clock.tick(FPS) gives no upper limit)
FrameMs == 2001
\* player bullets in flight
MaxBullets == 3
\* enemy bullets in flight
MaxEnemyBullets == 2
\* waves spawned after the first one
MaxWaves == 1
\* the API-level specification stops calling hit()/get_captured() once
\* lives is this far below zero
MaxDebt == 2
\* index of the last wave that is started
MaxWaveIndex == 5
\* the API-level specification lets the clock advance this many times
\* between two calls, apart from the frames
MaxWaits == 2

(************************ program constants ********************************)
StartLives == 3
max_combined_ships == 2
shoot_delay == 250
invincible_duration == 2000
respawn_delay == 1000
dive_interval == 3000
steps == 30
SingleWidth == 30
CombinedWidth == 50
None == 0
WINDOW_WIDTH == 600
WINDOW_HEIGHT == 800
GridCols == 5
GridRows == 2
FormationCount == 10

\* pygame.time.get_ticks(), relative to the current frame
Clock == 0
\* older timestamps are all alike: the longest duration is dive_interval
Horizon == dive_interval + 1
\* a timestamp one frame later
Past(timestamp) ==
    IF timestamp - FrameMs < 0 - Horizon THEN 0 - Horizon
    ELSE timestamp - FrameMs

EnemyIds == 1..MaxEnemies
enemy_types == <<"small", "medium", "large">>
wave_formations == <<"grid", "diamond", "arc", "v_shape">>

VARIABLES
    pc,               \* position of the session loop inside the frame
    frame,            \* number of frames started
    running,          \* run_game: running
    player,           \* the Player sprite
    respawning,       \* run_game: respawning
    respawn_timer,    \* run_game: respawn_timer
    enemies,          \* EnemyIds -> Enemy sprite (alive = member of the group)
    overlap,          \* EnemyIds -> player.rect.colliderect(enemy.rect)
    bullets,          \* number of sprites in the group bullets
    enemy_bullets,    \* number of sprites in the group enemy_bullets
    hits,             \* run_game: the dict returned by groupcollide, as a list
    enemy_collisions, \* run_game: the list returned by spritecollide
    upd,              \* next enemy of all_sprites.update()
    score,            \* run_game: score
    current_wave,     \* run_game: current_wave
    last_dive_time,   \* run_game: last_dive_time
    pass,             \* history: what the rules started from in this frame
                      \* (free: the player was neither captured nor invincible)
    last_call,        \* history: the Player method called by the last step
    formation,        \* run_game: the formation of the current wave
    spawn,            \* create_enemies_formation: the enemies created so far
    diver,            \* one Enemy with its rectangle and its dive_path
    high_score_calls, \* calls of load_high_score / save_high_score so far
    left              \* len(enemies) where all enemies of a wave are counted

vars == <<pc, frame, running, player, respawning, respawn_timer, enemies,
          overlap, bullets, enemy_bullets, hits, enemy_collisions, upd,
          score, current_wave, last_dive_time, pass, last_call,
          formation, spawn, diver, high_score_calls, left>>

(***************************** Player **************************************)
\* Player.__init__
NewPlayer(t) ==
    [lives |-> StartLives, combined_ships |-> 1, has_double_fire |-> FALSE,
     is_captured |-> FALSE, captured_by |-> None,
     invincible |-> FALSE, invincible_timer |-> 0 - Horizon,
     last_shot |-> t, rect_width |-> SingleWidth]

\* a faulty Player.update that ends invincibility at invincible_duration
\* sharp: C29 rejects it
UpdateInvincible_AtDuration(p, t) ==
    IF p.invincible /\ t - p.invincible_timer >= invincible_duration
    THEN [p EXCEPT !.invincible = FALSE]
    ELSE p

\* the invincibility part of Player.update
UpdateInvincible(p, t) ==
    IF p.invincible /\ t - p.invincible_timer > invincible_duration
    THEN [p EXCEPT !.invincible = FALSE]
    ELSE p

\* a faulty Player.shoot whose combined ship fires like a double-fire ship:
\* C18 rejects it
ShotCount_NoThird(p) ==
    IF p.combined_ships = 2 \/ p.has_double_fire THEN 2 ELSE 1

\* number of bullets one successful Player.shoot creates
ShotCount(p) ==
    IF p.combined_ships = 2 THEN 3
    ELSE IF p.has_double_fire THEN 2
    ELSE 1

\* a faulty Player.shoot that fires again after exactly shoot_delay: C26
\* rejects it
CanShoot_AtDelay(p, t) == ~p.is_captured /\ t - p.last_shot >= shoot_delay

\* Player.shoot passes its two guards
CanShoot(p, t) == ~p.is_captured /\ t - p.last_shot > shoot_delay

\* a faulty Player.hit that takes the double fire away when the last life of
\* a single ship is not lost: C30 rejects it
Hit_DropsDoubleFire(p, t) ==
    IF ~p.invincible /\ ~p.is_captured
    THEN IF p.combined_ships > 1
         THEN [p EXCEPT !.combined_ships = @ - 1,
                        !.has_double_fire = TRUE,
                        !.rect_width = IF @ > SingleWidth THEN SingleWidth ELSE @,
                        !.invincible = TRUE,
                        !.invincible_timer = t]
         ELSE LET q == [p EXCEPT !.lives = @ - 1]
              IN  IF q.lives > 0
                  THEN [q EXCEPT !.invincible = TRUE, !.invincible_timer = t,
                                 !.has_double_fire = FALSE]
                  ELSE q
    ELSE p

\* a faulty Player.hit that takes a life from a combined ship too: C5 rejects it
Hit_LosesLife(p, t) ==
    IF ~p.invincible /\ ~p.is_captured
    THEN LET q == [p EXCEPT !.lives = @ - 1,
                            !.combined_ships = IF @ > 1 THEN @ - 1 ELSE @,
                            !.has_double_fire = @ \/ p.combined_ships > 1]
         IN  IF q.lives > 0
             THEN [q EXCEPT !.invincible = TRUE, !.invincible_timer = t]
             ELSE q
    ELSE p

\* a faulty Player.hit that starts invincibility even with no life left: C17
\* rejects it
Hit_AlwaysInvincible(p, t) ==
    IF ~p.invincible /\ ~p.is_captured
    THEN IF p.combined_ships > 1
         THEN [p EXCEPT !.combined_ships = @ - 1,
                        !.has_double_fire = TRUE,
                        !.rect_width = SingleWidth,
                        !.invincible = TRUE,
                        !.invincible_timer = t]
         ELSE [p EXCEPT !.lives = @ - 1,
                        !.invincible = TRUE,
                        !.invincible_timer = t]
    ELSE p

\* Player.hit
Hit(p, t) ==
    IF ~p.invincible /\ ~p.is_captured
    THEN IF p.combined_ships > 1
         THEN [p EXCEPT !.combined_ships = @ - 1,
                        !.has_double_fire = TRUE,
                        !.rect_width = IF @ > SingleWidth THEN SingleWidth ELSE @,
                        !.invincible = TRUE,
                        !.invincible_timer = t]
         ELSE LET q == [p EXCEPT !.lives = @ - 1]
              IN  IF q.lives > 0
                  THEN [q EXCEPT !.invincible = TRUE, !.invincible_timer = t]
                  ELSE q
    ELSE p

\* a faulty Player.get_captured without the combined_ships guard: C4 rejects it
GetCaptured_NoShipCheck(p, captor) ==
    IF ~p.invincible /\ ~p.is_captured
    THEN [p EXCEPT !.is_captured = TRUE,
                   !.captured_by = captor,
                   !.lives = @ - 1]
    ELSE p

\* Player.get_captured
GetCaptured(p, captor) ==
    IF ~p.invincible /\ ~p.is_captured
    THEN IF p.combined_ships < max_combined_ships
         THEN [p EXCEPT !.is_captured = TRUE,
                        !.captured_by = captor,
                        !.lives = @ - 1]
         ELSE p
    ELSE p

\* a faulty Player.rescue that leaves the hitbox of a single ship: C31
\* rejects it
Rescue_NarrowShip(p, t) ==
    [p EXCEPT !.is_captured = FALSE,
              !.captured_by = None,
              !.combined_ships = IF @ < max_combined_ships THEN @ + 1 ELSE @,
              !.has_double_fire = TRUE,
              !.invincible = TRUE,
              !.invincible_timer = t]

\* a faulty Player.rescue that adds a ship beyond max_combined_ships: C6 rejects it
Rescue_NoCap(p, t) ==
    [p EXCEPT !.is_captured = FALSE,
              !.captured_by = None,
              !.combined_ships = @ + 1,
              !.rect_width = CombinedWidth,
              !.has_double_fire = TRUE,
              !.invincible = TRUE,
              !.invincible_timer = t]

\* Player.rescue
Rescue(p, t) ==
    LET c == IF p.combined_ships < max_combined_ships
             THEN p.combined_ships + 1
             ELSE p.combined_ships
    IN  [p EXCEPT !.is_captured = FALSE,
                  !.captured_by = None,
                  !.combined_ships = c,
                  !.rect_width = IF p.combined_ships < max_combined_ships /\ c = 2
                                 THEN CombinedWidth ELSE @,
                  !.has_double_fire = TRUE,
                  !.invincible = TRUE,
                  !.invincible_timer = t]

\* the player's timestamps one frame later
Later(p) ==
    [p EXCEPT !.invincible_timer = Past(@), !.last_shot = Past(@)]

\* run_game: the respawn timer fires
RespawnShip(p, t) ==
    [p EXCEPT !.invincible = TRUE, !.invincible_timer = t]

NoCall == [op |-> "none", pre |-> NewPlayer(0), captor |-> None]
Call(name, p, captor) == [op |-> name, pre |-> p, captor |-> captor]

(****************************** Enemy **************************************)
\* a faulty table that gives every enemy the points of a small one: C33
\* rejects it
Points_FlatRate(kind) == 100

\* Enemy.__init__: points, health and can_capture by enemy_type
Points(kind) ==
    IF kind = "small" THEN 100 ELSE IF kind = "medium" THEN 200 ELSE 400

StartHealth(kind) ==
    IF kind = "small" THEN 1 ELSE IF kind = "medium" THEN 2 ELSE 3

CanCapture(kind) == kind = "large"

NewEnemy(kind) ==
    [alive |-> TRUE, kind |-> kind, health |-> StartHealth(kind),
     has_captured_player |-> FALSE, is_diving |-> FALSE, dive_index |-> 0]

\* a sprite that kill() removed from every group and that nothing refers to
DeadEnemy ==
    [alive |-> FALSE, kind |-> "small", health |-> 0,
     has_captured_player |-> FALSE, is_diving |-> FALSE, dive_index |-> 0]

\* len(self.dive_path) after start_dive: range(steps + 1)
PathLen == steps + 1

\* Enemy.start_dive (the path itself is a function of the positions)
StartDive(en) ==
    IF en.has_captured_player
    THEN en
    ELSE [en EXCEPT !.is_diving = TRUE, !.dive_index = 0]

\* Enemy.update, the movement part: one more point of the dive path, or the
\* end of the dive
Advance(en) ==
    IF en.is_diving
    THEN IF en.dive_index < PathLen
         THEN [en EXCEPT !.dive_index = @ + 1]
         ELSE [en EXCEPT !.is_diving = FALSE]
    ELSE en

\* Enemy.update: the capture opportunity is examined after this move
TriesCapture(en) ==
    /\ en.is_diving
    /\ en.dive_index < PathLen
    /\ CanCapture(en.kind)
    /\ ~en.has_captured_player
    /\ en.dive_index + 1 > PathLen \div 2

Alive == {e \in EnemyIds : enemies[e].alive}

Min(S) == CHOOSE x \in S : \A y \in S : x <= y

\* the sprite after i in the iteration order of the group, 0 at its end
NextAlive(i) ==
    IF \E e \in Alive : e > i THEN Min({e \in Alive : e > i}) ELSE 0

\* create_enemies_formation: the enemy_type of every member, in spawn order
FormationKinds(form) ==
    IF form = "grid"
    THEN [EnemyIds -> {enemy_types[i] : i \in 1..Len(enemy_types)}]
    ELSE IF form = "v_shape"
    THEN {[e \in EnemyIds |->
             enemy_types[((((e - 1) \div 2) + ((e - 1) % 2)) % 3) + 1]]}
    ELSE {[e \in EnemyIds |-> enemy_types[((e - 1) % 3) + 1]]}

NoOverlap == [e \in EnemyIds |-> FALSE]

\* no enemy is followed with its geometry
NoDiver == [phase |-> "none"]

NoPass ==
    [collided |-> <<>>, health |-> [e \in EnemyIds |-> 0], alive |-> {},
     bullets |-> 0, score |-> 0, kills |-> [e \in EnemyIds |-> 0],
     enemy_bullets |-> 0, free |-> FALSE, collisions |-> {}, hit_calls |-> 0]

(************************* the session: run_game ***************************)
Init ==
    /\ pc = "tick"
    /\ frame = 0
    /\ running = TRUE
    /\ player = NewPlayer(0)
    /\ respawning = FALSE
    /\ respawn_timer = 0 - Horizon
    /\ \E kinds \in FormationKinds("grid") :
           enemies = [e \in EnemyIds |-> NewEnemy(kinds[e])]
    /\ overlap = NoOverlap
    /\ bullets = 0
    /\ enemy_bullets = 0
    /\ hits = <<>>
    /\ enemy_collisions = {}
    /\ upd = 0
    /\ score = 0
    /\ current_wave = 0
    /\ last_dive_time = 0
    /\ pass = NoPass
    /\ last_call = NoCall
    /\ formation = "grid"
    /\ spawn = <<>>
    /\ diver = NoDiver
    /\ high_score_calls = 0
    /\ left = 0

\* clock.tick(FPS) and the event loop, for one event or none: key is "quit"
\* for pygame.QUIT, "escape" and "space" for the KEYDOWN events
TickIn(key) ==
    /\ pc = "tick"
    /\ running
    /\ frame < MaxFrames
    /\ frame' = frame + 1
    /\ respawn_timer' = Past(respawn_timer)
    /\ last_dive_time' = Past(last_dive_time)
    /\ LET p == Later(player)
       IN  /\ pc' = IF key = "quit" THEN "exit" ELSE "respawn"
           /\ running' = IF key = "escape" THEN FALSE ELSE running
           /\ IF key = "space" /\ CanShoot(p, Clock)
              THEN /\ bullets + ShotCount(p) <= MaxBullets
                   /\ bullets' = bullets + ShotCount(p)
                   /\ player' = [p EXCEPT !.last_shot = Clock]
              ELSE /\ player' = p
                   /\ UNCHANGED bullets
    /\ UNCHANGED <<respawning, enemies, overlap, enemy_bullets,
                   hits, enemy_collisions, upd, score, current_wave,
                   pass, last_call>>
    /\ UNCHANGED <<formation, spawn, diver, high_score_calls,
                   left>>

\* the frame of a session in which the fire key is never pressed
FiringTick == TickIn("none") \/ TickIn("escape") \/ TickIn("quit")

Tick == FiringTick \/ TickIn("space")

\* "Handle player respawning after capture"
Respawn ==
    /\ pc = "respawn"
    /\ pc' = "update_player"
    /\ IF respawning /\ Clock - respawn_timer > respawn_delay
       THEN /\ respawning' = FALSE
            /\ player' = RespawnShip(player, Clock)
       ELSE UNCHANGED <<respawning, player>>
    /\ UNCHANGED <<frame, running, respawn_timer, enemies, overlap, bullets,
                   enemy_bullets, hits, enemy_collisions, upd, score,
                   current_wave, last_dive_time, pass, last_call>>
    /\ UNCHANGED <<formation, spawn, diver, high_score_calls,
                   left>>

\* all_sprites.update(): the player is the first sprite of the group
PlayerUpdate ==
    /\ pc = "update_player"
    /\ player' = UpdateInvincible(player, Clock)
    /\ upd' = NextAlive(0)
    /\ pc' = IF NextAlive(0) = 0 THEN "rule1" ELSE "update_enemies"
    /\ UNCHANGED <<frame, running, respawning, respawn_timer, enemies, overlap,
                   bullets, enemy_bullets, hits, enemy_collisions, score,
                   current_wave, last_dive_time, pass, last_call>>
    /\ UNCHANGED <<formation, spawn, diver, high_score_calls,
                   left>>

\* all_sprites.update(): Enemy.update of the enemy upd.  fire: the shot timer
\* has elapsed and random.random() < 0.3; ov: after the move the enemy's
\* rectangle overlaps the player's
EnemyUpdateIn(Fires, Overlaps) ==
    /\ pc = "update_enemies"
    /\ LET e == upd
           en == enemies[e]
       IN  \E fire \in Fires, ov \in Overlaps :
              LET captures == /\ TriesCapture(en)
                              /\ ov
                              /\ ~player.invincible
                              /\ ~player.is_captured
                  moved == Advance(en)
                  en2 == IF captures
                         THEN [moved EXCEPT !.has_captured_player = TRUE,
                                            !.is_diving = FALSE]
                         ELSE moved
              IN  /\ fire => enemy_bullets < MaxEnemyBullets
                  /\ enemy_bullets' = IF fire THEN enemy_bullets + 1
                                      ELSE enemy_bullets
                  /\ player' = IF captures THEN GetCaptured(player, e)
                               ELSE player
                  /\ enemies' = [enemies EXCEPT ![e] = en2]
                  \* a carrying enemy moves player.rect to its own offset
                  /\ IF en2.has_captured_player
                     THEN \E ovs \in [EnemyIds -> Overlaps] :
                             /\ ~ovs[e]
                             /\ \A d \in EnemyIds \ Alive : ~ovs[d]
                             /\ overlap' = ovs
                     ELSE overlap' = [overlap EXCEPT ![e] = ov]
                  /\ upd' = NextAlive(e)
                  /\ pc' = IF NextAlive(e) = 0 THEN "rule1"
                           ELSE "update_enemies"
    /\ UNCHANGED <<frame, running, respawning, respawn_timer, bullets, hits,
                   enemy_collisions, score, current_wave, last_dive_time,
                   pass, last_call>>
    /\ UNCHANGED <<formation, spawn, diver, high_score_calls,
                   left>>

EnemyUpdate == EnemyUpdateIn(BOOLEAN, BOOLEAN)

\* pygame.sprite.groupcollide(bullets, enemies, True, False): collided[b] is
\* the set of enemies bullet b overlaps; the dict has one entry for every
\* bullet that overlaps at least one enemy, and those bullets are killed
\* position of a set of enemies in a fixed enumeration of the sets of enemies
RECURSIVE SetCode(_)
SetCode(S) == IF S = {} THEN 0 ELSE 2 ^ Min(S) + SetCode(S \ {Min(S)})

\* the bullets of the group carry no identity: they are numbered in the
\* order of the sets of enemies they overlap
Ordered(collided) ==
    \A a, b \in DOMAIN collided :
        a < b => SetCode(collided[a]) >= SetCode(collided[b])

\* a faulty groupcollide that reports one enemy per bullet: C7 rejects it
GroupCollide_FirstEnemyOnly(collided) ==
    LET firsts == [b \in DOMAIN collided |->
                     IF collided[b] = {} THEN {} ELSE {Min(collided[b])}]
    IN  SelectSeq(firsts, LAMBDA list : list # {})

GroupCollide(collided) == SelectSeq(collided, LAMBDA list : list # {})

\* "Check for bullet-enemy collisions": the call of groupcollide
Rule1Collide ==
    /\ pc = "rule1"
    /\ pc' = "rule1_loop"
    /\ \E collided \in [1..bullets -> SUBSET Alive] :
          /\ Ordered(collided)
          /\ hits' = GroupCollide(collided)
          /\ bullets' = bullets - Len(hits')
          /\ pass' = [collided |-> collided,
                      health |-> [e \in EnemyIds |-> enemies[e].health],
                      alive |-> Alive,
                      bullets |-> bullets,
                      score |-> score,
                      kills |-> [e \in EnemyIds |-> 0],
                      enemy_bullets |-> enemy_bullets,
                      free |-> ~player.is_captured /\ ~player.invincible,
                      collisions |-> {},
                      hit_calls |-> 0]
    /\ UNCHANGED <<frame, running, player, respawning, respawn_timer, enemies,
                   overlap, enemy_bullets, enemy_collisions, upd, score,
                   current_wave, last_dive_time, last_call>>
    /\ UNCHANGED <<formation, spawn, diver, high_score_calls,
                   left>>

\* one iteration of "for enemy in hit_enemies" (inside "for bullet, ...")
Rule1Step ==
    /\ pc = "rule1_loop"
    /\ hits # <<>>
    /\ LET list == Head(hits)
           e == Min(list)
           en == enemies[e]
           hurt == [en EXCEPT !.health = @ - 1]
           destroyed == hurt.health <= 0
       IN  /\ player' = IF destroyed /\ en.has_captured_player
                        THEN Rescue(player, Clock)
                        ELSE player
           /\ score' = IF destroyed THEN score + Points(en.kind) ELSE score
           /\ enemies' = [enemies EXCEPT
                            ![e] = IF destroyed
                                   THEN [hurt EXCEPT !.alive = FALSE]
                                   ELSE hurt]
           /\ pass' = IF destroyed THEN [pass EXCEPT !.kills[e] = @ + 1]
                      ELSE pass
           /\ hits' = IF list = {e} THEN Tail(hits)
                      ELSE <<list \ {e}>> \o Tail(hits)
    /\ UNCHANGED <<pc, frame, running, respawning, respawn_timer, overlap,
                   bullets, enemy_bullets, enemy_collisions, upd,
                   current_wave, last_dive_time, last_call>>
    /\ UNCHANGED <<formation, spawn, diver, high_score_calls,
                   left>>

\* the end of the loop over hits: the killed sprites are no longer referenced
Rule1End ==
    /\ pc = "rule1_loop"
    /\ hits = <<>>
    /\ pc' = "rule2"
    /\ enemies' = [e \in EnemyIds |->
                     IF enemies[e].alive THEN enemies[e] ELSE DeadEnemy]
    /\ overlap' = [e \in EnemyIds |-> enemies[e].alive /\ overlap[e]]
    /\ pass' = [NoPass EXCEPT !.enemy_bullets = pass.enemy_bullets,
                            !.free = pass.free]
    /\ UNCHANGED <<frame, running, player, respawning, respawn_timer, bullets,
                   enemy_bullets, hits, enemy_collisions, upd, score,
                   current_wave, last_dive_time, last_call>>
    /\ UNCHANGED <<formation, spawn, diver, high_score_calls,
                   left>>

\* a faulty rule 2 that calls player.hit() for every bullet: C16 rejects it
Rule2Hit_PerBullet(p, k, t) ==
    IF k = 0 THEN p ELSE IF k = 1 THEN Hit(p, t) ELSE Hit(Hit(p, t), t)

\* "if pygame.sprite.spritecollide(player, enemy_bullets, True):
\* player.hit()" when the list holds k bullets
Rule2Hit(p, k, t) == IF k > 0 THEN Hit(p, t) ELSE p

\* "Check for enemy bullet-player collisions": k bullets overlap the player
Rule2 ==
    /\ pc = "rule2"
    /\ pc' = "rule3"
    /\ IF ~player.is_captured /\ ~player.invincible
       THEN \E k \in 0..enemy_bullets :
               /\ enemy_bullets' = enemy_bullets - k
               /\ player' = Rule2Hit(player, k, Clock)
       ELSE UNCHANGED <<enemy_bullets, player>>
    /\ UNCHANGED <<frame, running, respawning, respawn_timer, enemies, overlap,
                   bullets, hits, enemy_collisions, upd, score, current_wave,
                   last_dive_time, pass, last_call>>
    /\ UNCHANGED <<formation, spawn, diver, high_score_calls,
                   left>>

\* a faulty rule 3 that tests is_captured alone: C22 rejects it
Rule3Open_IgnoresInvincible(p) == ~p.is_captured

\* "if not player.is_captured and not player.invincible:" of rule 3
Rule3Open(p) == ~p.is_captured /\ ~p.invincible

\* "Check for enemy-player collisions": the call of spritecollide
Rule3Collide ==
    /\ pc = "rule3"
    /\ pc' = "rule3_loop"
    /\ enemy_collisions' = IF Rule3Open(player)
                           THEN {e \in Alive : overlap[e]}
                           ELSE {}
    /\ pass' = [NoPass EXCEPT
                 !.collisions = enemy_collisions',
                 !.health = [e \in EnemyIds |-> enemies[e].health]]
    /\ UNCHANGED <<frame, running, player, respawning, respawn_timer, enemies,
                   overlap, bullets, enemy_bullets, hits, upd, score,
                   current_wave, last_dive_time, last_call>>
    /\ UNCHANGED <<formation, spawn, diver, high_score_calls,
                   left>>

\* a faulty collision that costs the enemy one health, as a bullet does: C23
\* rejects it
Collided_LosesHealth(en) ==
    IF en.health - 1 <= 0 THEN DeadEnemy ELSE [en EXCEPT !.health = @ - 1]

\* the enemy after "enemy.kill()" of rule 3
Collided(en) == DeadEnemy

\* one iteration of "for enemy in enemy_collisions"
Rule3Step ==
    /\ pc = "rule3_loop"
    /\ enemy_collisions # {}
    /\ LET e == Min(enemy_collisions)
           en == enemies[e]
           eligible == /\ CanCapture(en.kind)
                       /\ ~en.has_captured_player
                       /\ player.combined_ships < max_combined_ships
       IN  \E roll \in BOOLEAN :
              /\ roll => eligible
              /\ enemy_collisions' = enemy_collisions \ {e}
              /\ IF eligible /\ roll
                 THEN /\ player' = GetCaptured(player, e)
                      /\ enemies' = [enemies EXCEPT
                                       ![e].has_captured_player = TRUE]
                      /\ IF player'.lives > 0
                         THEN /\ respawning' = TRUE
                              /\ respawn_timer' = Clock
                         ELSE UNCHANGED <<respawning, respawn_timer>>
                      /\ UNCHANGED <<overlap, pass>>
                 ELSE /\ player' = Hit(player, Clock)
                      /\ enemies' = [enemies EXCEPT ![e] = Collided(en)]
                      /\ overlap' = [overlap EXCEPT ![e] = FALSE]
                      /\ pass' = [pass EXCEPT !.hit_calls = @ + 1]
                      /\ UNCHANGED <<respawning, respawn_timer>>
    /\ UNCHANGED <<pc, frame, running, bullets, enemy_bullets, hits, upd, score,
                   current_wave, last_dive_time, last_call>>
    /\ UNCHANGED <<formation, spawn, diver, high_score_calls,
                   left>>

\* the end of the loop over enemy_collisions
Rule3End ==
    /\ pc = "rule3_loop"
    /\ enemy_collisions = {}
    /\ pc' = "wave"
    /\ UNCHANGED <<frame, running, player, respawning, respawn_timer, enemies,
                   overlap, bullets, enemy_bullets, hits, enemy_collisions,
                   upd, score, current_wave, last_dive_time, pass, last_call>>
    /\ UNCHANGED <<formation, spawn, diver, high_score_calls,
                   left>>

\* a faulty rotation that never comes back to the grid: C11 rejects it
NextFormation_SkipsGrid(wave) ==
    wave_formations[(wave % (Len(wave_formations) - 1)) + 2]

\* formation = wave_formations[current_wave % len(wave_formations)]
NextFormation(wave) == wave_formations[(wave % Len(wave_formations)) + 1]

\* "Check if all enemies are destroyed - create new wave"
WaveCheck ==
    /\ pc = "wave"
    /\ pc' = "dive"
    /\ IF Alive = {}
       THEN /\ current_wave < MaxWaves
            /\ current_wave' = current_wave + 1
            /\ formation' = NextFormation(current_wave')
            /\ \E kinds \in FormationKinds(formation') :
                   enemies' = [e \in EnemyIds |-> NewEnemy(kinds[e])]
       ELSE UNCHANGED <<current_wave, formation, enemies>>
    /\ pass' = NoPass
    /\ UNCHANGED <<frame, running, player, respawning, respawn_timer, overlap,
                   bullets, enemy_bullets, hits, enemy_collisions, upd, score,
                   last_dive_time, last_call>>
    /\ UNCHANGED <<spawn, diver, high_score_calls,
                   left>>

\* "Randomly select enemies to dive toward the player"
DiveSchedule ==
    /\ pc = "dive"
    /\ pc' = "game_over"
    /\ IF Clock - last_dive_time > dive_interval /\ Cardinality(Alive) > 0
       THEN /\ last_dive_time' = Clock
            /\ \E n \in 1..2 :
                  LET dive_count == IF n < Cardinality(Alive) THEN n
                                    ELSE Cardinality(Alive)
                  IN  \E diving_enemies \in SUBSET Alive :
                         /\ Cardinality(diving_enemies) = dive_count
                         /\ enemies' =
                              [e \in EnemyIds |->
                                 IF /\ e \in diving_enemies
                                    /\ ~enemies[e].is_diving
                                    /\ ~enemies[e].has_captured_player
                                 THEN StartDive(enemies[e])
                                 ELSE enemies[e]]
       ELSE UNCHANGED <<last_dive_time, enemies>>
    /\ UNCHANGED <<frame, running, player, respawning, respawn_timer, overlap,
                   bullets, enemy_bullets, hits, enemy_collisions, upd, score,
                   current_wave, pass, last_call>>
    /\ UNCHANGED <<formation, spawn, diver, high_score_calls,
                   left>>

\* a faulty game-over check that ends the session at the last life: C19
\* rejects it
StillRunning_LastLife(run, p) == IF p.lives <= 1 THEN FALSE ELSE run

\* "if player.lives <= 0: running = False"
StillRunning(run, p) == IF p.lives <= 0 THEN FALSE ELSE run

\* "Check for game over"
GameOver ==
    /\ pc = "game_over"
    /\ running' = StillRunning(running, player)
    /\ pc' = "draw"
    /\ overlap' = NoOverlap
    /\ UNCHANGED <<frame, player, respawning, respawn_timer, enemies, bullets,
                   enemy_bullets, hits, enemy_collisions, upd, score,
                   current_wave, last_dive_time, pass, last_call>>
    /\ UNCHANGED <<formation, spawn, diver, high_score_calls,
                   left>>

\* "Draw everything", which reads the high score file for the "High:" text,
\* then the test of "while running"
Draw ==
    /\ pc = "draw"
    /\ high_score_calls' = high_score_calls + 1
    /\ pc' = IF running THEN "tick" ELSE "over"
    /\ UNCHANGED <<frame, running, player, respawning, respawn_timer, enemies,
                   overlap, bullets, enemy_bullets, hits, enemy_collisions,
                   upd, score, current_wave, last_dive_time, pass, last_call,
                   formation, spawn, diver, left>>

\* "return show_game_over_screen(score)": save_high_score(score), which
\* calls load_high_score itself, then load_high_score()
ShowGameOver ==
    /\ pc = "over"
    /\ pc' = "done"
    /\ high_score_calls' = high_score_calls + 3
    /\ UNCHANGED <<frame, running, player, respawning, respawn_timer, enemies,
                   overlap, bullets, enemy_bullets, hits, enemy_collisions,
                   upd, score, current_wave, last_dive_time, pass, last_call,
                   formation, spawn, diver, left>>

Next ==
    \/ Tick
    \/ Respawn
    \/ PlayerUpdate
    \/ EnemyUpdate
    \/ Rule1Collide
    \/ Rule1Step
    \/ Rule1End
    \/ Rule2
    \/ Rule3Collide
    \/ Rule3Step
    \/ Rule3End
    \/ WaveCheck
    \/ DiveSchedule
    \/ GameOver
    \/ Draw
    \/ ShowGameOver

Spec == Init /\ [][Next]_vars

(***************************************************************************)
(* A session in which no enemy touches the player and no enemy fires: the  *)
(* frames of Spec in which rules 2 and 3 find nothing.                     *)
(***************************************************************************)
QuietEnemyUpdate == EnemyUpdateIn({FALSE}, {FALSE})

QuietNext ==
    \/ Tick
    \/ Respawn
    \/ PlayerUpdate
    \/ QuietEnemyUpdate
    \/ Rule1Collide
    \/ Rule1Step
    \/ Rule1End
    \/ Rule2
    \/ Rule3Collide
    \/ Rule3End
    \/ WaveCheck
    \/ DiveSchedule
    \/ GameOver
    \/ Draw
    \/ ShowGameOver

QuietSpec == Init /\ [][QuietNext]_vars

(***************************************************************************)
(* The Player object alone, driven by every sequence of calls of its       *)
(* methods from the state Player.__init__ leaves; last_call records the    *)
(* call of the last step and the player it was made on.                    *)
(***************************************************************************)
ApiInit ==
    /\ pc = "api"
    /\ frame = 0
    /\ running = TRUE
    /\ player = NewPlayer(Clock)
    /\ respawning = FALSE
    /\ respawn_timer = 0 - Horizon
    /\ enemies = [e \in EnemyIds |-> NewEnemy("large")]
    /\ overlap = NoOverlap
    /\ bullets = 0
    /\ enemy_bullets = 0
    /\ hits = <<>>
    /\ enemy_collisions = {}
    /\ upd = 0
    /\ score = 0
    /\ current_wave = 0
    /\ last_dive_time = 0
    /\ pass = NoPass
    /\ last_call = NoCall
    /\ formation = "grid"
    /\ spawn = <<>>
    /\ diver = NoDiver
    /\ high_score_calls = 0
    /\ left = 0

ApiFrame ==
    UNCHANGED <<pc, frame, running, respawning, respawn_timer, enemies,
                overlap, bullets, enemy_bullets, hits, enemy_collisions, upd,
                score, current_wave, last_dive_time, pass, formation, spawn,
                diver, high_score_calls,
                   left>>

\* player.hit()
ApiHit ==
    /\ pc = "api"
    /\ player.lives > 0 - MaxDebt
    /\ player' = Hit(player, Clock)
    /\ last_call' = Call("hit", player, None)
    /\ ApiFrame

\* player.get_captured(captor)
ApiGetCaptured ==
    /\ pc = "api"
    /\ player.lives > 0 - MaxDebt
    /\ \E captor \in EnemyIds :
          /\ player' = GetCaptured(player, captor)
          /\ last_call' = Call("get_captured", player, captor)
    /\ ApiFrame

\* player.rescue()
ApiRescue ==
    /\ pc = "api"
    /\ player' = Rescue(player, Clock)
    /\ last_call' = Call("rescue", player, None)
    /\ ApiFrame

\* the session loop lets its respawn timer fire
ApiRespawn ==
    /\ pc = "api"
    /\ player.lives > 0
    /\ player' = RespawnShip(player, Clock)
    /\ last_call' = Call("respawn", player, None)
    /\ ApiFrame

\* a frame passes and player.update() runs
ApiUpdate ==
    /\ pc = "api"
    /\ player' = UpdateInvincible(Later(player), Clock)
    /\ last_call' = Call("update", player, None)
    /\ ApiFrame

\* player.shoot()
ApiShoot ==
    /\ pc = "api"
    /\ IF CanShoot(player, Clock)
       THEN /\ bullets + ShotCount(player) <= MaxBullets
            /\ bullets' = bullets + ShotCount(player)
            /\ player' = [player EXCEPT !.last_shot = Clock]
       ELSE UNCHANGED <<bullets, player>>
    /\ last_call' = Call("shoot", player, None)
    /\ UNCHANGED <<pc, frame, running, respawning, respawn_timer, enemies,
                   overlap, enemy_bullets, hits, enemy_collisions, upd,
                   score, current_wave, last_dive_time, pass, formation,
                   spawn, diver, high_score_calls,
                   left>>

\* milliseconds the clock advances between two calls: the cooldown of
\* shoot() to the millisecond, one more, and the duration of invincibility
\* to the millisecond
WaitMs == {shoot_delay, shoot_delay + 1, invincible_duration}

\* the player's timestamps ms milliseconds later
Waited(p, ms) ==
    LET elapse(timestamp) == IF timestamp - ms < 0 - Horizon THEN 0 - Horizon
                             ELSE timestamp - ms
    IN  [p EXCEPT !.invincible_timer = elapse(@), !.last_shot = elapse(@)]

\* pygame.time.get_ticks() advances between two calls
ApiWait ==
    /\ pc = "api"
    /\ frame < MaxWaits
    /\ frame' = frame + 1
    /\ \E ms \in WaitMs : player' = Waited(player, ms)
    /\ last_call' = Call("wait", player, None)
    /\ UNCHANGED <<pc, running, respawning, respawn_timer, enemies,
                   overlap, bullets, enemy_bullets, hits, enemy_collisions,
                   upd, score, current_wave, last_dive_time, pass, formation,
                   spawn, diver, high_score_calls,
                   left>>

\* player.update() at the present reading of the clock
ApiUpdateNow ==
    /\ pc = "api"
    /\ player' = UpdateInvincible(player, Clock)
    /\ last_call' = Call("update_now", player, None)
    /\ ApiFrame

ApiNext ==
    \/ ApiWait
    \/ ApiUpdateNow
    \/ ApiShoot
    \/ ApiHit
    \/ ApiGetCaptured
    \/ ApiRescue
    \/ ApiRespawn
    \/ ApiUpdate

PlayerSpec == ApiInit /\ [][ApiNext]_vars


(***************************************************************************)
(* The waves of a session: create_enemies_formation with the ten enemies   *)
(* it creates, for the first wave and for every wave the wave check of     *)
(* run_game starts when the group of enemies is empty.  pc is "waves"      *)
(* between two frames and "wave_check" at the wave check of a frame.       *)
(***************************************************************************)
\* int(radius * math.cos(angle)) and int(radius * math.sin(angle)) for
\* radius = 150 and angle = math.pi * i / 9, i = 0..9
ArcCos == <<150, 140, 114, 75, 26, -26, -74, -114, -140, -150>>
ArcSin == <<0, 51, 96, 129, 147, 147, 129, 96, 51, 0>>

\* the list positions of the diamond formation
DiamondPositions ==
    LET c == WINDOW_WIDTH \div 2
    IN  <<<<c, 50>>, <<c - 80, 100>>, <<c + 80, 100>>, <<c, 150>>,
          <<c - 40, 75>>, <<c + 40, 75>>, <<c - 40, 125>>, <<c + 40, 125>>,
          <<c - 120, 150>>, <<c + 120, 150>>>>

\* the n-th call Enemy(x, y, enemy_type) of create_enemies_formation(form),
\* n counted from 0; draw is the value of random.randint(0, 2)
Spawned(form, n, draw) ==
    IF form = "grid"
    THEN [x |-> (n % GridCols) * 80 + 100, y |-> (n \div GridCols) * 60 + 50,
          enemy_type |-> enemy_types[draw + 1]]
    ELSE IF form = "diamond"
    THEN [x |-> DiamondPositions[n + 1][1], y |-> DiamondPositions[n + 1][2],
          enemy_type |-> enemy_types[(n % 3) + 1]]
    ELSE IF form = "arc"
    THEN [x |-> (WINDOW_WIDTH \div 2) + ArcCos[n + 1], y |-> 100 + ArcSin[n + 1],
          enemy_type |-> enemy_types[(n % 3) + 1]]
    ELSE LET i == n \div 2
         IN  IF n % 2 = 0
             THEN [x |-> (WINDOW_WIDTH \div 2) - (i + 1) * 40, y |-> 50 + i * 30,
                   enemy_type |-> enemy_types[(i % 3) + 1]]
             ELSE [x |-> (WINDOW_WIDTH \div 2) + (i + 1) * 40, y |-> 50 + i * 30,
                   enemy_type |-> enemy_types[((i + 1) % 3) + 1]]

\* a faulty arc of 9 enemies: C27 rejects it
SpawnCount_ShortArc(form) ==
    IF form = "grid" THEN GridCols * GridRows
    ELSE IF form = "diamond" THEN Len(DiamondPositions)
    ELSE IF form = "arc" THEN FormationCount - 1
    ELSE FormationCount

\* the number of calls Enemy(...) of create_enemies_formation(form)
SpawnCount(form) ==
    IF form = "grid" THEN GridCols * GridRows
    ELSE IF form = "diamond" THEN Len(DiamondPositions)
    ELSE FormationCount

\* a faulty grid that starts one column to the right: C12 rejects it
CreateEnemiesFormation_Shifted(form) ==
    {[n \in 1..SpawnCount(form) |->
        [Spawned(form, n - 1, draws[n]) EXCEPT !.x = @ + 80]] :
       draws \in [1..SpawnCount(form) -> 0..2]}

\* create_enemies_formation(form): the enemies in the order of creation, for
\* every outcome of the random draws (only the grid reads them)
CreateEnemiesFormation(form) ==
    {[n \in 1..SpawnCount(form) |-> Spawned(form, n - 1, draws[n])] :
       draws \in [1..SpawnCount(form) ->
                    IF form = "grid" THEN 0..2 ELSE {0}]}

\* run_game up to the first create_enemies_formation("grid")
WaveInit ==
    /\ pc = "waves"
    /\ frame = 0
    /\ running = TRUE
    /\ player = NewPlayer(Clock)
    /\ respawning = FALSE
    /\ respawn_timer = 0 - Horizon
    /\ enemies = [e \in EnemyIds |-> DeadEnemy]
    /\ overlap = NoOverlap
    /\ bullets = 0
    /\ enemy_bullets = 0
    /\ hits = <<>>
    /\ enemy_collisions = {}
    /\ upd = 0
    /\ score = 0
    /\ current_wave = 0
    /\ last_dive_time = 0
    /\ pass = NoPass
    /\ last_call = NoCall
    /\ formation = "grid"
    /\ spawn \in CreateEnemiesFormation("grid")
    /\ diver = NoDiver
    /\ high_score_calls = 0
    /\ left = Len(spawn)

\* numbers of enemies the rules of one frame remove with enemy.kill()
KilledInFrame == {0, 5, FormationCount}

\* a frame up to its wave check: rules 1 and 3 remove killed enemies
WaveRules ==
    /\ pc = "waves"
    /\ pc' = "wave_check"
    /\ \E killed \in KilledInFrame :
          /\ killed <= left
          /\ left' = left - killed
    /\ UNCHANGED <<frame, running, player, respawning, respawn_timer,
                   enemies, overlap, bullets, enemy_bullets, hits,
                   enemy_collisions, upd, score, current_wave, last_dive_time,
                   pass, last_call, formation, spawn, diver,
                   high_score_calls>>

\* the wave check of a frame that finds len(enemies) == 0
WaveCleared ==
    /\ pc = "wave_check"
    /\ left = 0
    /\ pc' = "waves"
    /\ current_wave < MaxWaveIndex
    /\ current_wave' = current_wave + 1
    /\ formation' = NextFormation(current_wave')
    /\ spawn' \in CreateEnemiesFormation(formation')
    /\ left' = Len(spawn')
    /\ UNCHANGED <<frame, running, player, respawning, respawn_timer,
                   enemies, overlap, bullets, enemy_bullets, hits,
                   enemy_collisions, upd, score, last_dive_time,
                   pass, last_call, diver, high_score_calls>>

\* the wave check of a frame that finds len(enemies) > 0
WaveKept ==
    /\ pc = "wave_check"
    /\ left > 0
    /\ pc' = "waves"
    /\ UNCHANGED <<frame, running, player, respawning, respawn_timer,
                   enemies, overlap, bullets, enemy_bullets, hits,
                   enemy_collisions, upd, score, current_wave, last_dive_time,
                   pass, last_call, formation, spawn, diver,
                   high_score_calls, left>>

WaveNext == WaveRules \/ WaveCleared \/ WaveKept

WaveSpec == WaveInit /\ [][WaveNext]_vars


(***************************************************************************)
(* One enemy with its rectangle: Enemy.start_dive computes the dive path   *)
(* from the position of the enemy, the target and a random control point,  *)
(* Enemy.update follows the path, and rule 3 of the session may find the   *)
(* enemy over the player at any time.                                      *)
(* The source evaluates the curve in floating point and truncates with     *)
(* int(); here the curve is evaluated exactly and truncated the same way,  *)
(* which is the same value wherever the exact one is an integer (t = 0 and *)
(* t = 1 in particular, where the floating-point products are exact).      *)
(***************************************************************************)
\* positions an enemy can be at; targets: the scheduler passes
\* (player.rect.centerx + random.randint(-50, 50), WINDOW_HEIGHT + 50), and
\* one target inside the field is added; values of random.randint(-100, 100)
StartXs == {0, 100, 563}
StartYs == {50, 110}
TargetXs == {0 - 35, 120, 650}
TargetYs == {300, WINDOW_HEIGHT + 50}
ControlOffsets == {0 - 100, 0 - 37, 0, 100}

\* int(): truncation toward zero of the quotient num / den, den > 0
TruncDiv(num, den) ==
    IF num >= 0 THEN num \div den ELSE 0 - ((0 - num) \div den)

\* int((1-t)**2 * start + 2*(1-t)*t * control + t**2 * target), t = i / steps
Bezier(i, start, control, target) ==
    TruncDiv((steps - i) * (steps - i) * start
               + 2 * (steps - i) * i * control
               + i * i * target,
             steps * steps)

\* a faulty path that stops one step short of the target: C13 rejects it
DivePath_Short(start_x, start_y, target_x, target_y, offset) ==
    LET control_x == start_x + offset
        control_y == ((start_y + target_y) \div 2) - 50
    IN  [n \in 1..steps |->
           <<Bezier(n - 1, start_x, control_x, target_x),
             Bezier(n - 1, start_y, control_y, target_y)>>]

\* the list dive_path that "for i in range(steps + 1)" builds
DivePath(start_x, start_y, target_x, target_y, offset) ==
    LET control_x == start_x + offset
        control_y == ((start_y + target_y) \div 2) - 50
    IN  [n \in 1..(steps + 1) |->
           <<Bezier(n - 1, start_x, control_x, target_x),
             Bezier(n - 1, start_y, control_y, target_y)>>]

\* Enemy.start_dive(target_x, target_y) on the enemy d; the fields call and
\* before record the arguments and the enemy the call was made on
StartDiveAt(d, target_x, target_y, offset) ==
    LET called == [d EXCEPT !.call = <<target_x, target_y, offset>>,
                            !.before = [x |-> d.x, y |-> d.y,
                                        is_diving |-> d.is_diving,
                                        dive_index |-> d.dive_index,
                                        dive_path |-> d.dive_path]]
    IN  IF d.has_captured_player
        THEN called
        ELSE [called EXCEPT
                !.is_diving = TRUE,
                !.dive_index = 0,
                !.dive_path = DivePath(d.x, d.y, target_x, target_y, offset)]

\* values of random.randint(50, WINDOW_WIDTH - 50)
RelocateXs == {50, 317, WINDOW_WIDTH - 50}

\* the player the diving enemy (enemy 1) meets: as Player.__init__ leaves it,
\* after a hit, carried by this enemy, carried by another enemy, after a
\* rescue whose invincibility is over
DivePlayers ==
    <<NewPlayer(Clock),
      Hit(NewPlayer(Clock), Clock),
      GetCaptured(NewPlayer(Clock), 1),
      GetCaptured(NewPlayer(Clock), 2),
      [Rescue(GetCaptured(NewPlayer(Clock), 2), Clock)
          EXCEPT !.invincible = FALSE]>>

\* a faulty capture test that does not wait for the midpoint of the path:
\* C25 rejects it
CapturesInDive_AnyIndex(d, p, ov) ==
    /\ CanCapture(d.kind)
    /\ ~d.has_captured_player
    /\ ov
    /\ ~p.invincible
    /\ ~p.is_captured

\* Enemy.update, "Check for capture opportunity during dive": d is the enemy
\* after "self.dive_index += 1", ov is player.rect.colliderect(self.rect)
CapturesInDive(d, p, ov) ==
    /\ CanCapture(d.kind)
    /\ ~d.has_captured_player
    /\ d.dive_index > Len(d.dive_path) \div 2
    /\ ov
    /\ ~p.invincible
    /\ ~p.is_captured

\* a faulty end of the dive that leaves the enemy where the path ended: C24
\* rejects it
DiveEnd_NoRelocation(d, rx) == [d EXCEPT !.is_diving = FALSE]

\* Enemy.update, "Return to normal behavior after dive"; rx is the value of
\* random.randint(50, WINDOW_WIDTH - 50)
DiveEnd(d, rx) ==
    IF d.y > WINDOW_HEIGHT
    THEN [d EXCEPT !.is_diving = FALSE, !.y = 50, !.x = rx]
    ELSE [d EXCEPT !.is_diving = FALSE]

\* Enemy.update of a diving enemy d: the branch "if self.is_diving"
DivingUpdate(d, p, ov, rx) ==
    IF d.dive_index < Len(d.dive_path)
    THEN LET moved == [d EXCEPT !.x = d.dive_path[d.dive_index + 1][1],
                                !.y = d.dive_path[d.dive_index + 1][2],
                                !.dive_index = @ + 1]
         IN  IF CapturesInDive(moved, p, ov)
             THEN [moved EXCEPT !.has_captured_player = TRUE,
                                !.is_diving = FALSE,
                                !.y = 50,
                                !.x = rx]
             ELSE moved
    ELSE DiveEnd(d, rx)

\* an enemy in formation, as Enemy.__init__ leaves it but for its position
\* and for whether it carries the player
DiveInit ==
    /\ pc = "diver"
    /\ frame = 0
    /\ running = TRUE
    /\ \E i \in 1..Len(DivePlayers) : player = DivePlayers[i]
    /\ respawning = FALSE
    /\ respawn_timer = 0 - Horizon
    /\ enemies = [e \in EnemyIds |-> DeadEnemy]
    /\ overlap = NoOverlap
    /\ bullets = 0
    /\ enemy_bullets = 0
    /\ hits = <<>>
    /\ enemy_collisions = {}
    /\ upd = 0
    /\ score = 0
    /\ current_wave = 0
    /\ last_dive_time = 0
    /\ pass = NoPass
    /\ last_call = NoCall
    /\ formation = "grid"
    /\ spawn = <<>>
    /\ \E x \in StartXs, y \in StartYs, carrying \in BOOLEAN,
          k \in 1..Len(enemy_types) :
          /\ carrying => CanCapture(enemy_types[k])
          /\ carrying <=> (player.is_captured /\ player.captured_by = 1)
          /\ diver = [phase |-> "formation", kind |-> enemy_types[k],
                      x |-> x, y |-> y,
                      has_captured_player |-> carrying, is_diving |-> FALSE,
                      dive_index |-> 0, dive_path |-> <<>>,
                      call |-> <<>>, before |-> <<>>, updates |-> 0,
                      overlaps |-> FALSE]
    /\ high_score_calls = 0
    /\ left = 0

\* the dive scheduler calls enemy.start_dive(target_x, target_y)
DiveStart ==
    /\ pc = "diver"
    /\ diver.phase = "formation"
    /\ \E target_x \in TargetXs, target_y \in TargetYs,
          offset \in ControlOffsets :
          diver' = [StartDiveAt(diver, target_x, target_y, offset)
                      EXCEPT !.phase = "called"]
    /\ UNCHANGED <<pc, frame, running, player, respawning, respawn_timer,
                   enemies, overlap, bullets, enemy_bullets, hits,
                   enemy_collisions, upd, score, current_wave, last_dive_time,
                   pass, last_call, formation, spawn, high_score_calls,
                   left>>

\* all_sprites.update() reaches the diving enemy: one call of Enemy.update;
\* updates counts the calls since start_dive, overlaps is the outcome of
\* player.rect.colliderect(self.rect) in the last of them
DiveUpdate ==
    /\ pc = "diver"
    /\ diver.phase = "called" \/ diver.phase = "diving"
    /\ diver.is_diving
    /\ \E ov \in BOOLEAN, rx \in RelocateXs :
          LET d == DivingUpdate(diver, player, ov, rx)
          IN  /\ diver' = [d EXCEPT !.phase = IF d.is_diving THEN "diving"
                                              ELSE "returned",
                                    !.updates = @ + 1,
                                    !.overlaps = ov]
              /\ player' = IF d.has_captured_player /\ ~diver.has_captured_player
                           THEN GetCaptured(player, 1)
                           ELSE player
    /\ UNCHANGED <<pc, frame, running, respawning, respawn_timer,
                   enemies, overlap, bullets, enemy_bullets, hits,
                   enemy_collisions, upd, score, current_wave, last_dive_time,
                   pass, last_call, formation, spawn, high_score_calls,
                   left>>

\* rule 3 of a frame finds the enemy over the player: one iteration of
\* "for enemy in enemy_collisions"
DiveCollide ==
    /\ pc = "diver"
    /\ diver.phase # "destroyed"
    /\ Rule3Open(player)
    /\ LET eligible == /\ CanCapture(diver.kind)
                       /\ ~diver.has_captured_player
                       /\ player.combined_ships < max_combined_ships
       IN  \E roll \in BOOLEAN :
              /\ roll => eligible
              /\ IF eligible /\ roll
                 THEN /\ player' = GetCaptured(player, 1)
                      /\ diver' = [diver EXCEPT !.has_captured_player = TRUE]
                 ELSE /\ player' = Hit(player, Clock)
                      /\ diver' = [diver EXCEPT !.phase = "destroyed"]
    /\ UNCHANGED <<pc, frame, running, respawning, respawn_timer,
                   enemies, overlap, bullets, enemy_bullets, hits,
                   enemy_collisions, upd, score, current_wave, last_dive_time,
                   pass, last_call, formation, spawn, high_score_calls,
                   left>>

DiveNext == DiveStart \/ DiveUpdate \/ DiveCollide

DiveSpec == DiveInit /\ [][DiveNext]_vars


(***************************************************************************)
(* A session in which enemies fire, no enemy touches the player and the    *)
(* player does not shoot: the frames of Spec in which rules 1 and 3 find   *)
(* nothing.                                                                *)
(***************************************************************************)
FiringEnemyUpdate == EnemyUpdateIn(BOOLEAN, {FALSE})

FiringNext ==
    \/ FiringTick
    \/ Respawn
    \/ PlayerUpdate
    \/ FiringEnemyUpdate
    \/ Rule1Collide
    \/ Rule1End
    \/ Rule2
    \/ Rule3Collide
    \/ Rule3End
    \/ WaveCheck
    \/ DiveSchedule
    \/ GameOver
    \/ Draw
    \/ ShowGameOver

FiringSpec == Init /\ [][FiringNext]_vars

(***************************************************************************)
(* A session in which the player does not shoot: the frames of Spec in     *)
(* which rule 1 finds nothing, with every outcome of the enemies' fire and *)
(* of their overlap with the player in rules 2 and 3.                      *)
(***************************************************************************)
ContactNext ==
    \/ FiringTick
    \/ Respawn
    \/ PlayerUpdate
    \/ EnemyUpdate
    \/ Rule1Collide
    \/ Rule1End
    \/ Rule2
    \/ Rule3Collide
    \/ Rule3Step
    \/ Rule3End
    \/ WaveCheck
    \/ DiveSchedule
    \/ GameOver
    \/ Draw
    \/ ShowGameOver

ContactSpec == Init /\ [][ContactNext]_vars

(******************************* claims ************************************)
Carrying == {e \in Alive : enemies[e].has_captured_player}

\* C1: in every reachable state at most one enemy of the registry has
\* has_captured_player = TRUE.
C1_SingleCaptor == Cardinality(Carrying) <= 1

\* C2: the capture link is set and cleared on both sides together: a live
\* enemy e has has_captured_player = TRUE exactly when the player is captured
\* and player.captured_by is e.
C2_CaptureLink ==
    \A e \in Alive :
        enemies[e].has_captured_player
            <=> (player.is_captured /\ player.captured_by = e)

\* C3: player.lives is never negative, in the middle of a frame or at its end.
C3_LivesNonNegative == player.lives >= 0

\* C4: get_captured(captor) changes nothing when the player is captured,
\* invincible or has two combined ships; otherwise it sets is_captured, sets
\* captured_by to the captor and takes exactly one life.
C4_GetCapturedContract ==
    last_call.op = "get_captured" =>
        LET pre == last_call.pre
        IN  IF pre.is_captured \/ pre.invincible \/ pre.combined_ships = 2
            THEN /\ player.lives = pre.lives
                 /\ player.is_captured = pre.is_captured
                 /\ player.captured_by = pre.captured_by
                 /\ player.combined_ships = pre.combined_ships
                 /\ player.has_double_fire = pre.has_double_fire
                 /\ player.invincible = pre.invincible
            ELSE /\ player.is_captured
                 /\ player.captured_by = last_call.captor
                 /\ player.lives = pre.lives - 1

\* get_captured was called on a free player with two combined ships
C4_Witness ==
    /\ last_call.op = "get_captured"
    /\ last_call.pre.combined_ships = 2
    /\ ~last_call.pre.invincible
    /\ ~last_call.pre.is_captured
    /\ ~player.is_captured

\* C5: a hit on a player with two combined ships who is neither invincible
\* nor captured leaves one ship, sets has_double_fire, starts invincibility
\* and takes no life.
C5_FirstHitOnCombined ==
    ( /\ last_call.op = "hit"
      /\ last_call.pre.combined_ships = 2
      /\ ~last_call.pre.invincible
      /\ ~last_call.pre.is_captured )
    => /\ player.combined_ships = 1
       /\ player.has_double_fire
       /\ player.invincible
       /\ player.lives = last_call.pre.lives

\* hit() took effect on a player with two combined ships
C5_Witness ==
    /\ last_call.op = "hit"
    /\ last_call.pre.combined_ships = 2
    /\ ~last_call.pre.invincible
    /\ ~last_call.pre.is_captured
    /\ player.combined_ships = 1

\* C6: after rescue(), from any state: has_double_fire is set, the capture
\* link is cleared on the player, invincibility has started, combined_ships
\* is one more than before unless it was already 2, lives is unchanged.
C6_RescueContract ==
    last_call.op = "rescue" =>
        /\ player.has_double_fire
        /\ ~player.is_captured
        /\ player.captured_by = None
        /\ player.invincible
        /\ player.combined_ships =
              IF last_call.pre.combined_ships < 2
              THEN last_call.pre.combined_ships + 1
              ELSE last_call.pre.combined_ships
        /\ player.lives = last_call.pre.lives

\* rescue() was called on a player who already had two combined ships
C6_Witness ==
    /\ last_call.op = "rescue"
    /\ last_call.pre.combined_ships = 2
    /\ player.combined_ships = 2

\* rule 1 has processed every pair of its groupcollide result
PassDone == pc = "rule1_loop" /\ hits = <<>>

\* the bullets of this pass that overlapped the enemies in S
BulletsOn(S) == {b \in DOMAIN pass.collided : pass.collided[b] \cap S # {}}

\* C7: in one pass of rule 1 every bullet that overlaps at least one enemy is
\* removed once, every enemy loses one health for every bullet that overlaps
\* it, and a bullet that overlaps no enemy stays.
C7_BulletHitsEveryEnemy ==
    PassDone =>
        /\ bullets = pass.bullets - Cardinality(BulletsOn(pass.alive))
        /\ \A e \in pass.alive :
              enemies[e].health = pass.health[e] - Cardinality(BulletsOn({e}))

\* a pass in which one bullet overlapped two enemies and another bullet none
C7_Witness ==
    /\ PassDone
    /\ \E b \in DOMAIN pass.collided : Cardinality(pass.collided[b]) >= 2
    /\ \E b \in DOMAIN pass.collided : pass.collided[b] = {}

RECURSIVE SumPoints(_)
SumPoints(S) ==
    IF S = {} THEN 0
    ELSE Points(enemies[Min(S)].kind) + SumPoints(S \ {Min(S)})

\* C8: an enemy destroyed by bullets in rule 1 is destroyed once: the score
\* grows by its points once and rescue() runs at most once for it, however
\* many bullets overlap it in the pass.
C8_DestroyedOnce ==
    PassDone =>
        /\ \A e \in EnemyIds : pass.kills[e] <= 1
        /\ score = pass.score
                     + SumPoints({e \in pass.alive : ~enemies[e].alive})

\* C9: the step that destroys an enemy with has_captured_player = TRUE takes
\* the player from captured to not captured, with captured_by cleared,
\* invincibility started and two combined ships.
C9_CaptorDestroyed ==
    [][ \A e \in EnemyIds :
          ( /\ enemies[e].alive
            /\ enemies[e].has_captured_player
            /\ ~enemies'[e].alive )
          => /\ player.is_captured
             /\ ~player'.is_captured
             /\ player'.captured_by = None
             /\ player'.invincible
             /\ player'.combined_ships = 2 ]_vars

\* C10: when the respawn timer of a capture that left lives > 0 fires, the
\* player has a replacement ship: input and shoot() are no longer blocked by
\* is_captured, while the captor still carries the captured ship.
C10_ReplacementShip ==
    [][ ( /\ pc = "respawn"
          /\ respawning
          /\ Clock - respawn_timer > respawn_delay
          /\ player.is_captured
          /\ player.lives > 0 )
        => /\ ~player'.is_captured
           /\ enemies'[player.captured_by].has_captured_player ]_vars


\* C11: the formation of wave index i is the (i mod 4)-th of grid, diamond,
\* arc, v_shape, starting with the grid at index 0; so the formation of wave
\* i + 4 is the formation of wave i
C11_WaveRotation ==
    pc = "waves" =>
        formation = <<"grid", "diamond", "arc", "v_shape">>[(current_wave % 4) + 1]

\* the fifth wave after the first one: index 4, the grid again
C11_Witness == pc = "waves" /\ current_wave = 4 /\ formation = "grid"

\* C12: create_enemies_formation("grid") creates exactly 10 enemies, one at
\* each coordinate (100 + 80c, 50 + 60r), c in 0..4 and r in 0..1, whatever
\* the random kinds
C12_GridCoordinates ==
    (pc = "waves" /\ formation = "grid") =>
        /\ Len(spawn) = 10
        /\ \A c \in 0..4, r \in 0..1 :
              Cardinality({n \in DOMAIN spawn :
                             /\ spawn[n].x = 100 + 80 * c
                             /\ spawn[n].y = 50 + 60 * r}) = 1

\* a grid of mixed kinds, and one of a single kind
C12_Witness ==
    /\ pc = "waves"
    /\ formation = "grid"
    /\ spawn[1].enemy_type = "large"
    /\ spawn[2].enemy_type = "small"
    /\ spawn[10].enemy_type = "medium"


\* C13: start_dive on an enemy that does not carry the player, at (sx, sy),
\* with target (tx, ty), builds a dive_path of exactly 31 points from
\* (sx, sy) to (tx, ty), for every control offset, and sets is_diving and
\* dive_index = 0
C13_DivePathEndpoints ==
    (pc = "diver" /\ diver.phase = "called" /\ ~diver.has_captured_player) =>
        /\ Len(diver.dive_path) = 31
        /\ diver.dive_path[1] = <<diver.before.x, diver.before.y>>
        /\ diver.dive_path[31] = <<diver.call[1], diver.call[2]>>
        /\ diver.is_diving
        /\ diver.dive_index = 0

\* the scenario of the specification, from (100, 50) to (120, 850), with the
\* control point 100 to the right
C13_Witness ==
    /\ pc = "diver"
    /\ diver.phase = "called"
    /\ ~diver.has_captured_player
    /\ diver.before.x = 100 /\ diver.before.y = 50
    /\ diver.call = <<120, 850, 100>>
    /\ Len(diver.dive_path) = 31


\* enemies the dive scheduler may send: alive, not diving, not carrying
Eligible ==
    {e \in Alive : ~enemies[e].is_diving /\ ~enemies[e].has_captured_player}

\* C14: each time the dive interval has elapsed and an eligible enemy
\* exists, the scheduler starts a dive on at least 1 and at most 2 eligible
\* enemies, and on no other enemy
C14_DiveScheduler ==
    [][ (pc = "dive" /\ Clock - last_dive_time > dive_interval
                     /\ Eligible # {})
          => LET started == {e \in EnemyIds : /\ ~enemies[e].is_diving
                                              /\ enemies'[e].is_diving}
             IN  /\ Cardinality(started) \in 1..2
                 /\ started \subseteq Eligible ]_vars


\* C15: no enemy carries the player and is diving at the same time
C15_CarrierNotDiving ==
    \A e \in Alive :
        ~(enemies[e].has_captured_player /\ enemies[e].is_diving)


\* C16: in rule 2, when the player is neither captured nor invincible and
\* k >= 1 enemy bullets overlap it, the k bullets are removed and
\* player.hit() is called exactly once: the player loses at most one ship
\* or one life to enemy bullets in a frame
C16_OneHitPerFrame ==
    [][ (pc = "rule2" /\ ~player.is_captured /\ ~player.invincible)
          => LET k == enemy_bullets - enemy_bullets'
             IN  /\ k \in 0..enemy_bullets
                 /\ k >= 1 => player' = Hit(player, Clock)
                 /\ k = 0 => player' = player
                 /\ player'.lives + player'.combined_ships
                       >= player.lives + player.combined_ships - 1 ]_vars

\* two enemy bullets removed by rule 2 in one frame, and the player hit
C16_Witness ==
    /\ pc = "rule3"
    /\ pass.enemy_bullets = 2
    /\ enemy_bullets = 0
    /\ player.invincible
    /\ player.invincible_timer = Clock


\* C17: hit() on a player with one ship who is neither invincible nor
\* captured takes exactly one life, leaves combined_ships at 1 and starts
\* invincibility exactly when a life is left; hit() on an invincible or
\* captured player changes nothing
C17_HitOnSingleShip ==
    last_call.op = "hit" =>
        LET pre == last_call.pre
        IN  /\ (pre.invincible \/ pre.is_captured) => player = pre
            /\ (~pre.invincible /\ ~pre.is_captured /\ pre.combined_ships = 1)
                  => /\ player.lives = pre.lives - 1
                     /\ player.combined_ships = 1
                     /\ player.invincible <=> player.lives > 0
                     /\ player.invincible => player.invincible_timer = Clock
                     /\ player.has_double_fire = pre.has_double_fire
                     /\ ~player.is_captured

\* the second hit of a player that started with 3 lives and one ship and
\* was neither captured nor rescued: lives 1, combined_ships 1
C17_Witness ==
    /\ last_call.op = "hit"
    /\ last_call.pre.lives = 2
    /\ ~last_call.pre.invincible
    /\ ~last_call.pre.is_captured
    /\ ~last_call.pre.has_double_fire
    /\ player.lives = 1
    /\ player.combined_ships = 1


\* C18: a successful shoot() creates exactly 1 bullet with one ship and no
\* double fire, exactly 2 with one ship and double fire, exactly 3 with two
\* combined ships
C18_ShotSize ==
    [][ (pc = "api" /\ last_call'.op = "shoot" /\ CanShoot(player, Clock))
          => bullets' - bullets =
                IF player.combined_ships = 2 THEN 3
                ELSE IF player.combined_ships = 1 /\ player.has_double_fire
                     THEN 2
                ELSE 1 ]_vars

\* the spread of a combined ship has just been fired
C18_Witness ==
    /\ pc = "api"
    /\ last_call.op = "shoot"
    /\ CanShoot(last_call.pre, Clock)
    /\ last_call.pre.combined_ships = 2
    /\ bullets = 3


\* C19: the session ends only because player.lives <= 0: the frame loop
\* stops at the end of the first frame in which lives <= 0, and nothing else
\* stops it while lives > 0
C19_EndsOnlyOnLives ==
    [][ /\ ((running /\ ~running') \/ (pc' = "exit" /\ pc # "exit"))
             => player.lives <= 0
        /\ (pc = "game_over" /\ player.lives <= 0) => ~running'
        /\ (pc = "draw" /\ ~running) => pc' = "over" ]_vars

\* C19, amended: the frame loop stops at the end of the first frame in which
\* lives <= 0, and otherwise only by the event loop (the ESCAPE key ends the
\* loop at the end of the frame, the QUIT event ends the process at once)
C19_EndsOnLivesOrEvent ==
    [][ /\ (running /\ ~running')
             => (pc = "tick" \/ (pc = "game_over" /\ player.lives <= 0))
        /\ (pc' = "exit" /\ pc # "exit") => pc = "tick"
        /\ (pc' = "over" /\ pc # "over") => (pc = "draw" /\ ~running)
        /\ (pc = "game_over" /\ player.lives <= 0) => ~running'
        /\ (pc = "draw" /\ ~running) => pc' = "over" ]_vars

\* a session ended by the ESCAPE key with lives left
C19_Witness == pc = "over" /\ ~running /\ player.lives > 0


\* C20: load_high_score and save_high_score are called only at the session
\* boundaries: no frame of the running loop calls them, so no call has been
\* made before the game-over screen
C20_HighScoreOnlyAtBoundaries == pc # "done" => high_score_calls = 0


\* C21: the rules of one frame read the state the movement step left: rule 2
\* changes nothing when the player was captured or invincible after the
\* movement step, and rule 3 examines the overlapping enemies exactly when
\* the player was neither captured nor invincible after the movement step,
\* whatever rules 1 and 2 did to the player in between
C21_RulesReadSnapshot ==
    [][ /\ (pc = "rule2" /\ ~pass.free) => UNCHANGED <<player, enemy_bullets>>
        /\ pc = "rule3"
              => enemy_collisions' = IF pass.free
                                     THEN {e \in Alive : overlap[e]}
                                     ELSE {} ]_vars


C23_CollisionDestroys ==
    [][ /\ (pc = "rule3" /\ ~player.is_captured /\ ~player.invincible)
              => enemy_collisions' = {e \in Alive : overlap[e]}
        /\ (pc = "rule3_loop" /\ enemy_collisions # {})
              => \E e \in enemy_collisions :
                    /\ enemy_collisions' = enemy_collisions \ {e}
                    /\ \/ /\ enemies'[e].alive
                          /\ enemies'[e].has_captured_player
                          /\ pass'.hit_calls = pass.hit_calls
                       \/ /\ ~enemies'[e].alive
                          /\ player' = Hit(player, Clock)
                          /\ pass'.hit_calls = pass.hit_calls + 1
        /\ (pc = "rule3_loop" /\ enemy_collisions = {})
              => /\ \A e \in pass.collisions :
                       enemies[e].alive => enemies[e].has_captured_player
                 /\ pass.hit_calls =
                       Cardinality({e \in pass.collisions : ~enemies[e].alive})
      ]_vars

\* rule 3 has removed two overlapping enemies, one of them with 3 health,
\* and called player.hit() twice
C23_Witness ==
    /\ pc = "rule3_loop"
    /\ enemy_collisions = {}
    /\ Cardinality(pass.collisions) = 2
    /\ \E e \in pass.collisions : pass.health[e] = 3 /\ ~enemies[e].alive
    /\ pass.hit_calls = 2


\* C24: a dive ends: a diving enemy has had 31 updates since start_dive at
\* the most, only an update ends the dive of an enemy that is not
\* destroyed, and the 32nd update leaves is_diving false; the update that ends a
\* dive whose path ended below the field (y > 800) puts the enemy at y = 50
\* with x in 50..550, and one that ended inside the field leaves it where
\* it is
C24_DiveEnds ==
    /\ [](pc = "diver" /\ diver.phase # "formation" /\ diver.is_diving
            => diver.updates <= 31)
    /\ [][ ( /\ pc = "diver"
              /\ diver.phase # "formation"
              /\ diver.is_diving
              /\ diver'.phase # "destroyed" ) =>
              /\ diver'.updates \in {diver.updates, diver.updates + 1}
              /\ diver'.updates = diver.updates => diver'.is_diving
              /\ (diver.updates = 31 /\ diver'.updates = 32) =>
                    /\ ~diver'.is_diving
                    /\ IF diver.y > 800
                       THEN diver'.y = 50 /\ diver'.x \in 50..550
                       ELSE diver'.y = diver.y /\ diver'.x = diver.x ]_vars

\* a dive to the target below the field has ended with its 32nd update and
\* the enemy is back at y = 50
C24_Witness ==
    /\ pc = "diver"
    /\ diver.phase = "returned"
    /\ diver.updates = 32
    /\ ~diver.has_captured_player
    /\ diver.call[2] = 850
    /\ diver.dive_index = 31
    /\ diver.y = 50


\* C25: an update of a diving enemy makes it a captor only if it is a large
\* enemy that was not carrying, has taken more than 15 of the 31 points of
\* its path, overlaps the player, and the player is neither invincible nor
\* captured; that update ends the dive and puts the enemy at y = 50.  An
\* enemy with has_captured_player = TRUE is a large one.
C25_MidDiveCapture ==
    /\ [](pc = "diver" /\ diver.has_captured_player => diver.kind = "large")
    /\ [][ ( /\ pc = "diver"
              /\ diver'.updates = diver.updates + 1
              /\ ~diver.has_captured_player
              /\ diver'.has_captured_player ) =>
              /\ diver.kind = "large"
              /\ Len(diver.dive_path) = 31
              /\ diver'.dive_index > 15
              /\ diver'.overlaps
              /\ ~player.invincible
              /\ ~player.is_captured
              /\ diver.is_diving
              /\ ~diver'.is_diving
              /\ diver'.y = 50 ]_vars

\* a large enemy has captured the player with the 16th point of its path
C25_Witness ==
    /\ pc = "diver"
    /\ diver.phase = "returned"
    /\ diver.kind = "large"
    /\ diver.has_captured_player
    /\ diver.updates = 16
    /\ diver.dive_index = 16
    /\ diver.overlaps
    /\ diver.y = 50
    /\ player.is_captured
    /\ player.captured_by = 1


\* C26: shoot() on a player who is not captured, more than 250 ms after
\* last_shot, creates bullets and sets last_shot to the clock and nothing
\* else; any other shoot() changes no state.  A bullet is created only then:
\* never for a captured player, never 250 ms or less after the last shot.
C26_ShootGuards ==
    [][ /\ (pc = "api" /\ last_call'.op = "shoot") =>
              IF ~player.is_captured /\ Clock - player.last_shot > 250
              THEN /\ bullets' > bullets
                   /\ player' = [player EXCEPT !.last_shot = Clock]
              ELSE /\ bullets' = bullets
                   /\ player' = player
        /\ (pc = "api" /\ bullets' # bullets) =>
              /\ last_call'.op = "shoot"
              /\ ~player.is_captured
              /\ Clock - player.last_shot > 250 ]_vars

\* shoot() was called exactly 250 ms after the last shot and did nothing
C26_Witness ==
    /\ pc = "api"
    /\ last_call.op = "shoot"
    /\ ~last_call.pre.is_captured
    /\ last_call.pre.last_shot = Clock - 250
    /\ player = last_call.pre
    /\ bullets > 0


\* C27: current_wave changes only at the wave check of a frame, by exactly
\* 1, and does so exactly when no enemy is left there; the same step creates
\* the next formation with exactly 10 enemies, whichever of the four it is,
\* so at least one enemy is left at the end of every frame
C27_WaveAdvance ==
    /\ [](pc = "waves" => left > 0)
    /\ [][ /\ pc = "wave_check" =>
                  IF left = 0
                  THEN /\ current_wave' = current_wave + 1
                       /\ Len(spawn') = 10
                       /\ left' = 10
                  ELSE /\ current_wave' = current_wave
                       /\ spawn' = spawn
                       /\ left' = left
            /\ current_wave' # current_wave =>
                  /\ pc = "wave_check"
                  /\ left = 0
                  /\ current_wave' = current_wave + 1 ]_vars

\* the fourth formation, the V shape, has been created with 10 enemies, and
\* half of them are left at the end of a later frame
C27_Witness ==
    /\ pc = "waves"
    /\ current_wave = 3
    /\ formation = "v_shape"
    /\ Len(spawn) = 10
    /\ left = 5


\* C28: the player is never captured and invincible at the same time
C28_ExclusiveStates == ~(player.is_captured /\ player.invincible)


\* C29: invincibility that started at clock time t lasts through every
\* player update with clock <= t + 2000 and ends with the first player
\* update with clock > t + 2000; nothing but such an update ends it
C29_InvincibilityEnds ==
    [][ pc = "api" =>
          /\ ( /\ last_call'.op = "update" \/ last_call'.op = "update_now"
               /\ player.invincible )
                => ( player'.invincible
                       <=> Clock - player'.invincible_timer <= 2000 )
          /\ (player.invincible /\ ~player'.invincible)
                => /\ last_call'.op = "update" \/ last_call'.op = "update_now"
                   /\ Clock - player'.invincible_timer > 2000 ]_vars

\* a player update exactly 2000 ms after the start of the invincibility has
\* left the player invincible
C29_Witness ==
    /\ pc = "api"
    /\ last_call.op = "update_now"
    /\ last_call.pre.invincible
    /\ player.invincible
    /\ Clock - player.invincible_timer = 2000


\* C30: no call of shoot, hit, get_captured, rescue or update, no respawn
\* and no advance of the clock takes has_double_fire from true to false;
\* rescue() and the loss of a combined ship leave it true, so it is false
\* only while the player has never had a second ship
C30_DoubleFireSticky ==
    /\ [](pc = "api" /\ ~player.has_double_fire
            => player.combined_ships = 1)
    /\ [][ pc = "api" =>
              /\ player.has_double_fire => player'.has_double_fire
              /\ last_call'.op = "rescue" => player'.has_double_fire
              /\ player'.combined_ships # player.combined_ships
                    => player'.has_double_fire ]_vars

\* a ship that was combined and lost its second ship has lost a life too and
\* still has the double fire
C30_Witness ==
    /\ pc = "api"
    /\ last_call.op = "hit"
    /\ last_call.pre.combined_ships = 1
    /\ last_call.pre.has_double_fire
    /\ player.lives = last_call.pre.lives - 1
    /\ player.lives > 0
    /\ player.has_double_fire


\* C31: combined_ships is 1 or 2, and the player's rectangle is 50 wide
\* exactly when combined_ships = 2 and 30 wide exactly when it is 1
C31_ShipsAndWidth ==
    pc = "api" =>
        /\ player.combined_ships \in 1..2
        /\ player.rect_width = 50 <=> player.combined_ships = 2
        /\ player.rect_width = 30 <=> player.combined_ships = 1

\* a ship that had lost its second ship has been combined a second time
C31_Witness ==
    /\ pc = "api"
    /\ last_call.op = "rescue"
    /\ last_call.pre.combined_ships = 1
    /\ last_call.pre.has_double_fire
    /\ last_call.pre.rect_width = 30
    /\ player.combined_ships = 2
    /\ player.rect_width = 50


\* C32: when rule 1 destroys an enemy with has_captured_player = TRUE, and so
\* calls player.rescue(), the player is captured and captured_by is that
\* enemy
C32_RescueOnlyOfCaptive ==
    [][ \A e \in EnemyIds :
          ( /\ pc = "rule1_loop"
            /\ hits # <<>>
            /\ e = Min(Head(hits))
            /\ enemies[e].has_captured_player
            /\ enemies[e].health - 1 <= 0 )
          => /\ player.is_captured
             /\ player.captured_by = e ]_vars


\* C33: the score never decreases; a step changes it only in the loop of rule 1,
\* where a bullet hit takes the health of an enemy to 0 or below, and then by
\* that enemy's points (100 small, 200 medium, 400 large); a step of rule 3
\* (kill by body collision, capture, player hit), a step that costs the player
\* a life and a step that changes the wave leave the score as it was
C33_ScoreOnlyInRule1 ==
    [][ /\ score' >= score
        /\ score' # score =>
              /\ pc = "rule1_loop"
              /\ hits # <<>>
              /\ LET en == enemies[Min(Head(hits))]
                 IN  /\ en.health - 1 <= 0
                     /\ score' - score =
                           IF en.kind = "small" THEN 100
                           ELSE IF en.kind = "medium" THEN 200 ELSE 400
        /\ pc = "rule3_loop" => score' = score
        /\ player'.lives < player.lives => score' = score
        /\ player'.is_captured /\ ~player.is_captured => score' = score
        /\ current_wave' # current_wave => score' = score ]_vars

\* the last of three bullet hits has just destroyed a large enemy for its 400
\* points, the only points of the session: the other enemy of the first wave
\* was destroyed before by its collision with the player, which cost the
\* player a life and brought no points
C33_Witness ==
    /\ pc = "rule1_loop"
    /\ hits = <<>>
    /\ current_wave = 0
    /\ player.lives < StartLives
    /\ pass.score = 0
    /\ score = 400
    /\ \E e \in EnemyIds :
          /\ pass.alive = {e}
          /\ pass.kills[e] = 1
          /\ enemies[e].kind = "large"
          /\ ~enemies[e].alive

=============================================================================
